---- MODULE Spec2Model ----
(***************************************************************************)
(* Music player of the Hola Animated PWA: search across Audius and Piped,  *)
(* the shared Audio element, the mini player and the full player.          *)
(* Modelled from the later revision of the script (part_000, lines 889 to  *)
(* 1318).  One action per event handler or continuation of an async        *)
(* function; every handler runs to its next await in one step, as the      *)
(* single-threaded event loop runs it.                                     *)
(***************************************************************************)
EXTENDS Integers, Sequences, FiniteSets, TLC

VARIABLES
  isShuffle,          \* let isShuffle
  isRepeat,           \* let isRepeat
  audio,              \* const audio = new Audio(): src, paused, currentTime, duration, error
  currentTrack,       \* let currentTrack (NullTrack for null)
  currentPlaylist,    \* let currentPlaylist
  currentTrackIndex,  \* let currentTrackIndex (0-based, -1 for none)
  dom,                \* the elements of both players the script writes to
  musicResults,       \* the #music-results container: message or clickable items
  playCalls,          \* invocations of playTrack suspended at an await
  searchCalls,        \* invocations of searchMusic suspended at an await
  mediaEvents,        \* events the audio element has queued for its listeners
  localStorage,       \* the 'musicVolume' item of localStorage
  nextLoop            \* the resampling loop of the earlier playNext: let nextIndex

vars == << isShuffle, isRepeat, audio, currentTrack, currentPlaylist,
           currentTrackIndex, dom, musicResults, playCalls,
           searchCalls, mediaEvents, localStorage, nextLoop >>

----------------------------------------------------------------------------
(* Bounds of the model *)

MaxRawAudius == 2      \* longest raw result list an Audius response carries
MaxRawPiped == 2       \* longest raw result list a Piped response carries
WideRawAudius == 3     \* the same, where only searching or only navigating is explored
WideRawPiped == 3
LongRaw == 7           \* raw entries of a response longer than the slice
MaxPlayCalls == 2      \* playTrack invocations in flight at once
MaxSearchCalls == 2    \* searchMusic invocations in flight at once

(* Program constants *)

SliceLimit == 6        \* .slice(0, 6) of both adapters
EndSlack == 3          \* audio.duration - 0.3, in tenths of a second
TrackDuration == 8     \* duration of every media resource, in tenths of a second
TimeStep == 4          \* playback advance between two progress events, in tenths

----------------------------------------------------------------------------
(* JavaScript values *)

Undef == "undefined"

Truthy(x) == x # Undef /\ x # ""

\* a || b
Or(a, b) == IF Truthy(a) THEN a ELSE b

Min(a, b) == IF a < b THEN a ELSE b

\* a % n of JavaScript: the sign of the result is the sign of a
JsMod(a, n) == IF a >= 0 THEN a % n ELSE 0 - ((0 - a) % n)

\* s.slice(0, n)
Slice(s, n) == SubSeq(s, 1, Min(n, Len(s)))

MapSeq(s, F(_)) == [i \in 1..Len(s) |-> F(s[i])]

\* Strings the script takes apart are sequences of tokens; "v=" is one token.
\* The empty sequence is the falsy value ('' or undefined).
NoText == << >>

RECURSIVE IndexOfToken(_, _, _)
IndexOfToken(s, tok, from) ==
  IF from > Len(s) THEN 0
  ELSE IF s[from] = tok THEN from
  ELSE IndexOfToken(s, tok, from + 1)

\* url.split('v=')[1]: the piece between the first and the second separator
SplitV1(url) ==
  LET first == IndexOfToken(url, "v=", 1) IN
  IF first = 0 THEN NoText
  ELSE LET second == IndexOfToken(url, "v=", first + 1) IN
       IF second = 0 THEN SubSeq(url, first + 1, Len(url))
       ELSE SubSeq(url, first + 1, second - 1)

OrText(a, b) == IF a # NoText THEN a ELSE b

----------------------------------------------------------------------------
(* Tracks *)

NullTrack ==
  [source |-> "null", title |-> "", artist |-> "", cover |-> "",
   stream |-> NoText, videoId |-> NoText]

\* Raw entries of an Audius search response
AudiusRaw(title, hasUser, name, handle, hasArtwork, a150, a480, hasStream, url) ==
  [title |-> title, hasUser |-> hasUser, userName |-> name, userHandle |-> handle,
   hasArtwork |-> hasArtwork, art150 |-> a150, art480 |-> a480,
   hasStream |-> hasStream, streamUrl |-> url]

CatAudius ==
  << AudiusRaw("Alba", TRUE, "Ana", "ana01", TRUE, "alba150", Undef, TRUE, <<"audius/alba">>),
     AudiusRaw("Bruma", FALSE, Undef, Undef, FALSE, Undef, Undef, FALSE, NoText),
     AudiusRaw(Undef, TRUE, Undef, "cruz", TRUE, Undef, "cielo480", TRUE, <<"audius/cielo">>),
     AudiusRaw("Duna", TRUE, "Dani", Undef, FALSE, Undef, Undef, TRUE, <<"audius/duna">>),
     AudiusRaw("Eco", TRUE, "Eva", Undef, TRUE, "eco150", "eco480", TRUE, <<"audius/eco">>),
     AudiusRaw("Faro", TRUE, "Fer", Undef, FALSE, Undef, Undef, TRUE, <<"audius/faro">>),
     AudiusRaw("Gala", TRUE, "Gus", Undef, FALSE, Undef, Undef, TRUE, <<"audius/gala">>),
     AudiusRaw("Hilo", TRUE, "Hugo", Undef, FALSE, Undef, Undef, TRUE, <<"audius/hilo">>) >>

\* Raw entries of a Piped search response
PipedRaw(id, url, title, uploader, thumbnail) ==
  [id |-> id, url |-> url, title |-> title, uploader |-> uploader,
   thumbnail |-> thumbnail]

CatPiped ==
  << PipedRaw(<<"vidA">>, NoText, "Video A", "Canal A", "thumbA"),
     PipedRaw(NoText, <<"/watch?", "v=", "vidB">>, "Video B", Undef, Undef),
     PipedRaw(NoText, NoText, Undef, "Canal C", Undef),
     PipedRaw(NoText, <<"/channel/", "d">>, "Video D", "Canal D", Undef),
     PipedRaw(<<"vidE">>, <<"/watch?", "v=", "other">>, "Video E", "Canal E", "thumbE"),
     PipedRaw(<<"vidF">>, NoText, "Video F", "Canal F", Undef),
     PipedRaw(<<"vidG">>, NoText, "Video G", "Canal G", Undef),
     PipedRaw(<<"vidH">>, NoText, "Video H", "Canal H", Undef) >>

\* The object the Audius adapter builds from one raw entry
AudiusTrack(t) ==
  [source |-> "audius",
   title |-> Or(t.title, ""),
   artist |-> Or(IF t.hasUser THEN Or(t.userName, t.userHandle) ELSE Undef, ""),
   cover |-> Or(IF t.hasArtwork THEN Or(t.art150, t.art480) ELSE Undef, ""),
   stream |-> IF t.hasStream /\ t.streamUrl # NoText THEN t.streamUrl ELSE NoText,
   videoId |-> NoText]

HasStream(t) == t.stream # NoText

\* The object the Piped adapter builds from one raw entry
PipedTrack(item) ==
  [source |-> "youtube",
   title |-> Or(item.title, ""),
   artist |-> Or(item.uploader, ""),
   cover |-> Or(item.thumbnail, ""),
   stream |-> NoText,
   videoId |-> OrText(item.id, OrText(SplitV1(item.url), OrText(item.url, NoText)))]

\* Responses of the Audius search endpoint
AudiusResponses(maxRaw) ==
  { [status |-> "neterr", hasData |-> FALSE, data |-> << >>],
    [status |-> "badjson", hasData |-> FALSE, data |-> << >>],
    [status |-> "ok", hasData |-> FALSE, data |-> << >>] }
  \cup { [status |-> "ok", hasData |-> TRUE, data |-> SubSeq(CatAudius, 1, k)] :
         k \in 0..maxRaw }

\* Responses of the Piped search endpoint
PipedResponses(maxRaw) ==
  { [status |-> "neterr", shape |-> "none", items |-> << >>],
    [status |-> "badjson", shape |-> "none", items |-> << >>],
    [status |-> "ok", shape |-> "object", items |-> << >>] }
  \cup { [status |-> "ok", shape |-> sh, items |-> SubSeq(CatPiped, 1, k)] :
         sh \in {"items", "array"}, k \in 0..maxRaw }

\* AudiusTracks discarding the entries without a stream before it truncates
AudiusTracksFilterFirst(resp) ==
  LET data == IF resp.hasData THEN resp.data ELSE << >> IN
  Slice(SelectSeq(MapSeq(data, AudiusTrack), HasStream), SliceLimit)

\* (dataAudius.data || []).slice(0, 6).map(...).filter((t) => t.stream)
AudiusTracks(resp) ==
  LET data == IF resp.hasData THEN resp.data ELSE << >> IN
  SelectSeq(MapSeq(Slice(data, SliceLimit), AudiusTrack), HasStream)

\* Array.isArray(items) ? items.slice(0, 6).map(...) : []
YoutubeTracks(resp) ==
  IF resp.shape \in {"items", "array"}
  THEN MapSeq(Slice(resp.items, SliceLimit), PipedTrack)
  ELSE << >>

----------------------------------------------------------------------------
(* The program state as one record, so that a handler is the composition   *)
(* of the functions it calls.                                              *)

State ==
  [isShuffle |-> isShuffle, isRepeat |-> isRepeat, audio |-> audio,
   currentTrack |-> currentTrack, currentPlaylist |-> currentPlaylist,
   currentTrackIndex |-> currentTrackIndex, dom |-> dom,
   musicResults |-> musicResults,
   playCalls |-> playCalls, searchCalls |-> searchCalls,
   mediaEvents |-> mediaEvents, localStorage |-> localStorage,
   nextLoop |-> nextLoop]

Commit(s) ==
  /\ isShuffle' = s.isShuffle
  /\ isRepeat' = s.isRepeat
  /\ audio' = s.audio
  /\ currentTrack' = s.currentTrack
  /\ currentPlaylist' = s.currentPlaylist
  /\ currentTrackIndex' = s.currentTrackIndex
  /\ dom' = s.dom
  /\ musicResults' = s.musicResults
  /\ playCalls' = s.playCalls
  /\ searchCalls' = s.searchCalls
  /\ mediaEvents' = s.mediaEvents
  /\ localStorage' = s.localStorage
  /\ nextLoop' = s.nextLoop

----------------------------------------------------------------------------
(* The audio element.  duration = 0 stands for NaN (no metadata yet).      *)

\* A decimal string is the sequence of its digits, the integer part first:
\* "0.25" is << 0, 2, 5 >> and "1" is << 1 >>.
DigitAt(text, i) == IF i <= Len(text) THEN text[i] ELSE 0

\* parseFloat(text), in hundredths
parseFloat(text) == DigitAt(text, 1) * 100 + DigitAt(text, 2) * 10 + DigitAt(text, 3)

\* The string localStorage.setItem makes of a number given in hundredths
NumberToString(n) ==
  LET whole == n \div 100
      tenths == (n % 100) \div 10
      hundredths == n % 10
  IN IF hundredths # 0 THEN << whole, tenths, hundredths >>
     ELSE IF tenths # 0 THEN << whole, tenths >>
     ELSE << whole >>

\* Volumes are counted in hundredths: audio.volume of a new element is 1
FullVolume == 100

NewAudio ==
  [src |-> NoText, paused |-> TRUE, currentTime |-> 0, duration |-> 0,
   error |-> FALSE, bare |-> FALSE, volume |-> FullVolume]

\* Every pending promise of audio.play() is settled (resolved or rejected):
\* the continuation of each playTrack awaiting one becomes runnable.
SettlePlayPromises(calls) ==
  [i \in 1..Len(calls) |->
     IF calls[i].stage = "play" THEN [calls[i] EXCEPT !.settled = TRUE]
     ELSE calls[i]]

\* A pending promise of a play() that nobody handles is rejected: the
\* rejection is reported as unhandled.
RejectBare(s) ==
  [s EXCEPT !.audio.bare = FALSE,
            !.mediaEvents.unhandled = (s.mediaEvents.unhandled \/ s.audio.bare)]

\* audio.pause()
AudioPause(s) ==
  IF s.audio.paused THEN s
  ELSE RejectBare([s EXCEPT !.audio.paused = TRUE,
                            !.mediaEvents.icons = TRUE,
                            !.playCalls = SettlePlayPromises(s.playCalls)])

\* audio.src = url: the media element load algorithm
AudioSetSrc(s, url) ==
  LET s1 == RejectBare(s) IN
  [s1 EXCEPT !.audio = [src |-> url, paused |-> TRUE, currentTime |-> 0,
                        duration |-> 0, error |-> (url = NoText),
                        bare |-> FALSE, volume |-> s.audio.volume],
             !.mediaEvents.timeupdate = (s.mediaEvents.timeupdate
                                           \/ s.audio.currentTime # 0),
             !.playCalls = SettlePlayPromises(s.playCalls)]

\* audio.currentTime = t
AudioSeek(s, t) ==
  IF s.audio.duration = 0 THEN s
  ELSE [s EXCEPT !.audio.currentTime = t, !.mediaEvents.timeupdate = TRUE]

\* Does audio.play() return a promise that is already settled?
PlaySettlesAtOnce(s, allowed) ==
  \/ ~allowed
  \/ s.audio.error
  \/ s.audio.duration # 0

\* audio.play(): the effect on the element
AudioPlay(s, allowed) ==
  IF ~allowed \/ s.audio.error THEN s
  ELSE LET s1 == IF s.audio.duration # 0 /\ s.audio.currentTime = s.audio.duration
                 THEN AudioSeek(s, 0) ELSE s
       IN IF s1.audio.paused
          THEN [s1 EXCEPT !.audio.paused = FALSE, !.mediaEvents.icons = TRUE]
          ELSE s1

\* audio.play() with nothing attached to the promise it returns: a
\* rejection is reported as unhandled, at once or when the promise settles.
AudioPlayBare(s, allowed) ==
  LET s1 == AudioPlay(s, allowed) IN
  IF ~allowed \/ s.audio.error THEN [s1 EXCEPT !.mediaEvents.unhandled = TRUE]
  ELSE IF s.audio.duration # 0 THEN s1
  ELSE [s1 EXCEPT !.audio.bare = TRUE]

----------------------------------------------------------------------------
(* Functions of the player *)

\* formatTime(sec), the time given in tenths of a second: << m, tens, units >>
formatTime(tenths) ==
  LET sec == IF tenths > 0 THEN tenths \div 10 ELSE 0
      r == sec % 60
  IN << sec \div 60, r \div 10, r % 10 >>

\* showMini stopping the audio as the close buttons do
showMiniPausing(s) ==
  LET s1 == AudioPause(s) IN
  [s1 EXCEPT !.dom.miniPlayerHidden = FALSE,
             !.dom.fullPlayerHidden = TRUE,
             !.dom.navHidden = FALSE]

showMini(s) ==
  [s EXCEPT !.dom.miniPlayerHidden = FALSE,
            !.dom.fullPlayerHidden = TRUE,
            !.dom.navHidden = FALSE]

\* showFull leaving the mini player as it is
showFullOverMini(s) ==
  [s EXCEPT !.dom.fullPlayerHidden = FALSE, !.dom.navHidden = TRUE]

showFull(s) ==
  [s EXCEPT !.dom.fullPlayerHidden = FALSE,
            !.dom.miniPlayerHidden = TRUE,
            !.dom.navHidden = TRUE]

togglePlay(s, allowed) ==
  IF s.audio.paused THEN AudioPlayBare(s, allowed) ELSE AudioPause(s)

\* updatePlayIcons leaving the icons of the full player alone
updatePlayIconsMiniOnly(s) ==
  IF s.audio.paused
  THEN [s EXCEPT !.dom.playIconHidden = FALSE, !.dom.pauseIconHidden = TRUE]
  ELSE [s EXCEPT !.dom.playIconHidden = TRUE, !.dom.pauseIconHidden = FALSE]

updatePlayIcons(s) ==
  IF s.audio.paused
  THEN [s EXCEPT !.dom.playIconHidden = FALSE, !.dom.pauseIconHidden = TRUE,
                 !.dom.fPlayIconHidden = FALSE, !.dom.fPauseIconHidden = TRUE]
  ELSE [s EXCEPT !.dom.playIconHidden = TRUE, !.dom.pauseIconHidden = FALSE,
                 !.dom.fPlayIconHidden = TRUE, !.dom.fPauseIconHidden = FALSE]

updateProgress(s) ==
  IF s.audio.duration = 0 THEN s
  ELSE LET percentage == (s.audio.currentTime * 100) \div s.audio.duration IN
       [s EXCEPT !.dom.miniProgressBar = percentage,
                 !.dom.fullProgressBar = percentage,
                 !.dom.fullCurrent = formatTime(s.audio.currentTime),
                 !.dom.fullTotal = formatTime(s.audio.duration)]

\* currentPlaylist.findIndex((t) => t === track), 0-based, -1 when absent
RECURSIVE FindIndexFrom(_, _, _)
FindIndexFrom(list, track, i) ==
  IF i > Len(list) THEN -1
  ELSE IF list[i] = track THEN i - 1
  ELSE FindIndexFrom(list, track, i + 1)

findIndex(list, track) == FindIndexFrom(list, track, 1)

\* The title and cover assignments of playTrack
ShowTrack(s, track) ==
  [s EXCEPT !.dom.miniTitle = Or(track.title, "Sin titulo"),
            !.dom.miniArtist = Or(track.artist, ""),
            !.dom.fullTrack = Or(track.title, "Sin titulo"),
            !.dom.fullArtist = Or(track.artist, ""),
            !.dom.fullCover = IF Truthy(track.cover) THEN track.cover
                              ELSE "icons/icon-512.png"]

\* playTrack from "Update UI titles and cover" up to the await of audio.play()
PlayTrackStart(s, track, allowed) ==
  LET s1 == ShowTrack(s, track)
      s2 == AudioPlay(s1, allowed)
  IN [s2 EXCEPT !.playCalls =
        Append(s2.playCalls,
               [track |-> track, stage |-> "play",
                settled |-> PlaySettlesAtOnce(s1, allowed)])]

\* playTrack(track) up to its first await
playTrack(s, track, allowed) ==
  LET s1 == [s EXCEPT !.currentTrack = track]
      s2 == IF s1.currentTrackIndex < 0
            THEN [s1 EXCEPT !.currentTrackIndex = findIndex(s1.currentPlaylist, track)]
            ELSE s1
      s3 == AudioSetSrc(AudioPause(s2), NoText)
  IN IF track.source = "youtube"
     THEN [s3 EXCEPT !.playCalls =
             Append(s3.playCalls,
                    [track |-> track, stage |-> "fetch", settled |-> FALSE])]
     ELSE PlayTrackStart(AudioSetSrc(s3, track.stream), track, allowed)

\* currentPlaylist[i] for a 0-based i: undefined (the null track) when there
\* is no such element
TrackAt(s, i) ==
  IF i + 1 \in 1..Len(s.currentPlaylist) THEN s.currentPlaylist[i + 1]
  ELSE NullTrack

\* nextIndex without the wrap: the cursor stays on the last track
nextIndexNoWrap(s, random) ==
  IF s.isShuffle THEN random
  ELSE IF s.currentTrackIndex + 1 >= Len(s.currentPlaylist)
       THEN Len(s.currentPlaylist) - 1
       ELSE s.currentTrackIndex + 1

\* The index playNext moves to; random is the value of
\* Math.floor(Math.random() * currentPlaylist.length)
nextIndex(s, random) ==
  IF s.isShuffle THEN random
  ELSE JsMod(s.currentTrackIndex + 1, Len(s.currentPlaylist))

\* prevIndex of the earlier revision: shuffle is not consulted
prevIndexSequential(s, random) ==
  JsMod(s.currentTrackIndex - 1 + Len(s.currentPlaylist), Len(s.currentPlaylist))

\* prevIndex without the length added before the remainder is taken
prevIndexNoOffset(s, random) ==
  IF s.isShuffle THEN random
  ELSE JsMod(s.currentTrackIndex - 1, Len(s.currentPlaylist))

\* prevIndex without the wrap: the cursor stays on the first track
prevIndexNoWrap(s, random) ==
  IF s.isShuffle THEN random
  ELSE IF s.currentTrackIndex - 1 < 0 THEN 0 ELSE s.currentTrackIndex - 1

\* The index playPrev moves to
prevIndex(s, random) ==
  IF s.isShuffle THEN random
  ELSE JsMod(s.currentTrackIndex - 1 + Len(s.currentPlaylist), Len(s.currentPlaylist))

\* playNext without the test for an empty playlist: the index becomes NaN,
\* the track undefined, and playTrack stops the audio before it throws.
\* NaN is written -1 and undefined the null track.
playNextUnguarded(s, random, allowed) ==
  IF Len(s.currentPlaylist) = 0
  THEN AudioSetSrc(AudioPause([s EXCEPT !.currentTrackIndex = -1,
                                        !.currentTrack = NullTrack]), NoText)
  ELSE LET s1 == [s EXCEPT !.currentTrackIndex = nextIndex(s, random)]
       IN playTrack(s1, TrackAt(s1, s1.currentTrackIndex), allowed)

\* playNext()
playNext(s, random, allowed) ==
  IF Len(s.currentPlaylist) = 0 THEN s
  ELSE LET s1 == [s EXCEPT !.currentTrackIndex = nextIndex(s, random)]
       IN playTrack(s1, TrackAt(s1, s1.currentTrackIndex), allowed)

\* playPrev()
playPrev(s, random, allowed) ==
  IF Len(s.currentPlaylist) = 0 THEN s
  ELSE LET s1 == [s EXCEPT !.currentTrackIndex = prevIndex(s, random)]
       IN playTrack(s1, TrackAt(s1, s1.currentTrackIndex), allowed)

\* The playNext of the earlier revision, which draws again under shuffle
\* until the index differs from the cursor.  The function is one task of
\* the page; its loop is modelled an iteration at a step, nextLoop holding
\* the local nextIndex while the loop runs.

\* The test of the while loop with <= for ===
loopAgainUntilGreater(s) == s.nextLoop.nextIndex <= s.currentTrackIndex

\* while (nextIndex === currentTrackIndex)
loopAgain(s) == s.nextLoop.nextIndex = s.currentTrackIndex

\* From "currentTrackIndex = nextIndex" (or the sequential step) to the end
resampleEnd(s, index, allowed) ==
  LET s1 == [s EXCEPT !.currentTrackIndex = index,
                      !.nextLoop = [active |-> FALSE, nextIndex |-> index]]
      nextTrack == TrackAt(s1, index)
  IN IF nextTrack # NullTrack THEN playTrack(s1, nextTrack, allowed) ELSE s1

\* From the call to the while loop, or to the end when there is no loop
resampleBegin(s, allowed) ==
  IF Len(s.currentPlaylist) = 0 THEN s
  ELSE IF s.isShuffle
       THEN IF Len(s.currentPlaylist) > 1
            THEN [s EXCEPT !.nextLoop = [active |-> TRUE,
                                         nextIndex |-> s.currentTrackIndex]]
            ELSE resampleEnd(s, s.currentTrackIndex, allowed)
       ELSE resampleEnd(s, JsMod(s.currentTrackIndex + 1, Len(s.currentPlaylist)),
                        allowed)

\* One pass of the loop: the test, then a draw or the way out
resampleStep(s, random, allowed) ==
  IF loopAgain(s) THEN [s EXCEPT !.nextLoop.nextIndex = random]
  ELSE resampleEnd(s, s.nextLoop.nextIndex, allowed)

\* toggleShuffle switching repeat off when it switches shuffle on
toggleShuffleExclusive(s) ==
  LET v == ~s.isShuffle
      r == s.isRepeat /\ ~v
  IN [s EXCEPT !.isShuffle = v, !.dom.btnShuffleActive = v, !.dom.fShuffleActive = v,
               !.isRepeat = r, !.dom.btnRepeatActive = r, !.dom.fRepeatActive = r]

toggleShuffle(s) ==
  LET v == ~s.isShuffle IN
  [s EXCEPT !.isShuffle = v, !.dom.btnShuffleActive = v, !.dom.fShuffleActive = v]

toggleRepeat(s) ==
  LET v == ~s.isRepeat IN
  [s EXCEPT !.isRepeat = v, !.dom.btnRepeatActive = v, !.dom.fRepeatActive = v]

----------------------------------------------------------------------------
(* Stream resolution of a Piped track (the continuation of playTrack)      *)

RemoveAt(seq, j) == SubSeq(seq, 1, j - 1) \o SubSeq(seq, j + 1, Len(seq))

PipedStream(kind, videoId, videoOnly) ==
  [url |-> << kind >> \o videoId, videoOnly |-> videoOnly]

\* Responses of the Piped streams endpoint for one video
StreamResponses(videoId) ==
  { [status |-> "neterr", hasStreams |-> FALSE, audioStreams |-> << >>],
    [status |-> "badjson", hasStreams |-> FALSE, audioStreams |-> << >>],
    [status |-> "ok", hasStreams |-> FALSE, audioStreams |-> << >>],
    [status |-> "ok", hasStreams |-> TRUE, audioStreams |-> << >>],
    [status |-> "ok", hasStreams |-> TRUE,
     audioStreams |-> << PipedStream("piped/audio/", videoId, FALSE) >>],
    [status |-> "ok", hasStreams |-> TRUE,
     audioStreams |-> << PipedStream("piped/muxed/", videoId, TRUE),
                         PipedStream("piped/audio/", videoId, FALSE) >>],
    [status |-> "ok", hasStreams |-> TRUE,
     audioStreams |-> << [url |-> NoText, videoOnly |-> FALSE],
                         PipedStream("piped/audio/", videoId, FALSE) >>] }

\* (data?.audioStreams || [])[0], as a sequence of at most one element
FirstStream(resp) ==
  LET streams == IF resp.hasStreams THEN resp.audioStreams ELSE << >> IN
  Slice(streams, 1)

\* playTrack from the completion of its fetch up to the await of audio.play()
playTrackResolved(s, j, resp, allowed) ==
  LET track == s.playCalls[j].track
      s1 == [s EXCEPT !.playCalls = RemoveAt(s.playCalls, j)]
      chosen == FirstStream(resp)
  IN IF resp.status # "ok" THEN s1
     ELSE IF chosen # << >> /\ chosen[1].url # NoText
          THEN PlayTrackStart(AudioSetSrc(s1, chosen[1].url), track, allowed)
          ELSE s1

\* playTrack awaiting the promise of audio.play() once more when it settles
playTrackSettledAwaitingAgain(s, j) ==
  [s EXCEPT !.playCalls[j].settled = FALSE]

\* playTrack after the await of audio.play()
playTrackSettled(s, j) ==
  updatePlayIcons(showMini([s EXCEPT !.playCalls = RemoveAt(s.playCalls, j)]))

----------------------------------------------------------------------------
(* searchMusic *)

Filters == {"all", "audius", "youtube"}

\* searchFinish adding the tracks to the playlist of the previous search
searchFinishMerging(s, tracks) ==
  LET merged == s.currentPlaylist \o tracks IN
  [s EXCEPT !.currentPlaylist = merged,
            !.musicResults = IF Len(merged) = 0
                             THEN [kind |-> "empty", items |-> << >>]
                             ELSE [kind |-> "items", items |-> merged]]

\* "Save playlist for navigation" and "Render results"
searchFinish(s, tracks) ==
  [s EXCEPT !.currentPlaylist = tracks,
            !.musicResults = IF Len(tracks) = 0
                             THEN [kind |-> "empty", items |-> << >>]
                             ELSE [kind |-> "items", items |-> tracks]]

\* An invocation of searchMusic in flight: the filter it read, the tracks it has
\* collected and the requests it has issued and not yet seen answered.
SearchCall(filter, tracks, pending) ==
  [filter |-> filter, tracks |-> tracks, pending |-> pending]

\* searchMusic issuing the requests of every selected adapter before awaiting
searchMusicAllAtOnce(s, filter) ==
  LET s1 == [s EXCEPT !.musicResults = [kind |-> "loading", items |-> << >>]]
      issued == IF filter = "all" THEN {"audius", "youtube"} ELSE {filter}
  IN [s1 EXCEPT !.searchCalls =
        Append(s1.searchCalls, SearchCall(filter, << >>, issued))]

\* searchMusic(query) up to its first await; filter is the value of the checked
\* radio of input[name="music-source"] ('all' when none is checked)
searchMusic(s, filter) ==
  LET s1 == [s EXCEPT !.musicResults = [kind |-> "loading", items |-> << >>]]
      first == IF filter = "all" \/ filter = "audius" THEN "audius" ELSE "youtube"
  IN [s1 EXCEPT !.searchCalls =
        Append(s1.searchCalls, SearchCall(filter, << >>, {first}))]

\* searchAudiusDone going on to the Piped fetch whatever the filter
searchAudiusDoneNoFilter(s, k, resp) ==
  LET call == s.searchCalls[k]
      tracks == IF resp.status = "ok" THEN call.tracks \o AudiusTracks(resp)
                ELSE call.tracks
  IN [s EXCEPT !.searchCalls[k] = SearchCall(call.filter, tracks, {"youtube"})]

\* searchAudiusDone with no try/catch around the fetch: a failure ends the
\* invocation where it stands
searchAudiusDoneUncaught(s, k, resp) ==
  LET call == s.searchCalls[k]
      tracks == call.tracks \o AudiusTracks(resp)
  IN IF resp.status # "ok"
     THEN [s EXCEPT !.searchCalls = RemoveAt(s.searchCalls, k)]
     ELSE IF call.filter = "all" \/ call.filter = "youtube"
     THEN [s EXCEPT !.searchCalls[k] = SearchCall(call.filter, tracks, {"youtube"})]
     ELSE searchFinish([s EXCEPT !.searchCalls = RemoveAt(s.searchCalls, k)], tracks)

\* searchMusic from the completion of the Audius fetch
searchAudiusDone(s, k, resp) ==
  LET call == s.searchCalls[k]
      tracks == IF resp.status = "ok" THEN call.tracks \o AudiusTracks(resp)
                ELSE call.tracks
  IN IF call.filter = "all" \/ call.filter = "youtube"
     THEN [s EXCEPT !.searchCalls[k] = SearchCall(call.filter, tracks, {"youtube"})]
     ELSE searchFinish([s EXCEPT !.searchCalls = RemoveAt(s.searchCalls, k)], tracks)

\* searchPipedDone putting the Piped tracks in front of the collected ones
searchPipedDoneInFront(s, k, resp) ==
  LET call == s.searchCalls[k]
      tracks == IF resp.status = "ok" THEN YoutubeTracks(resp) \o call.tracks
                ELSE call.tracks
  IN searchFinish([s EXCEPT !.searchCalls = RemoveAt(s.searchCalls, k)], tracks)

\* searchMusic from the completion of the Piped fetch
searchPipedDone(s, k, resp) ==
  LET call == s.searchCalls[k]
      tracks == IF resp.status = "ok" THEN call.tracks \o YoutubeTracks(resp)
                ELSE call.tracks
  IN searchFinish([s EXCEPT !.searchCalls = RemoveAt(s.searchCalls, k)], tracks)

----------------------------------------------------------------------------
(* The elements as the page declares them *)

InitDom ==
  [miniPlayerHidden |-> TRUE, fullPlayerHidden |-> TRUE, navHidden |-> FALSE,
   playIconHidden |-> FALSE, pauseIconHidden |-> TRUE,
   fPlayIconHidden |-> FALSE, fPauseIconHidden |-> TRUE,
   volumeRange |-> NumberToString(FullVolume),
   sourceFilter |-> "all",
   navActive |-> {"home"}, sectionActive |-> {"home"},
   miniTitle |-> "", miniArtist |-> "", fullTrack |-> "", fullArtist |-> "",
   fullCover |-> "",
   miniProgressBar |-> 0, fullProgressBar |-> 0,
   fullCurrent |-> << 0, 0, 0 >>, fullTotal |-> << 0, 0, 0 >>,
   btnShuffleActive |-> FALSE, fShuffleActive |-> FALSE,
   btnRepeatActive |-> FALSE, fRepeatActive |-> FALSE]

----------------------------------------------------------------------------
(* The volume control *)

\* The values the user can give the slider
SliderValues == { << 0 >>, << 0, 2, 5 >>, << 0, 5 >>, << 1 >> }

\* The 'input' listener without the localStorage.setItem
volumeInputNoSave(s, text) ==
  LET vol == parseFloat(text) IN
  [s EXCEPT !.dom.volumeRange = text, !.audio.volume = vol]

\* The 'input' listener of the volume slider, the slider being at text
volumeInput(s, text) ==
  LET vol == parseFloat(text) IN
  [s EXCEPT !.dom.volumeRange = text,
            !.audio.volume = vol,
            !.localStorage = [has |-> TRUE, musicVolume |-> NumberToString(vol)]]

\* "Load saved volume or default to 1", when the script starts
loadSavedVolume(s) ==
  IF s.localStorage.has
  THEN [s EXCEPT !.dom.volumeRange = s.localStorage.musicVolume,
                 !.audio.volume = parseFloat(s.localStorage.musicVolume)]
  ELSE s

----------------------------------------------------------------------------
(* The bottom navigation: "multiple <section> elements, each representing  *)
(* a different page (home, music, theme, settings, profile)" and "a         *)
(* corresponding set of buttons".  A button is named by its data-section;   *)
(* dom.navActive and dom.sectionActive are the buttons and the sections     *)
(* that carry the class active.                                             *)

Sections == {"home", "music", "theme", "settings", "profile"}

NavItems == Sections

\* The click listener of a button adding active without removing it from
\* the other sections
navItemClickAdding(s, item) ==
  LET targetId == item IN
  [s EXCEPT !.dom.navActive = {item},
            !.dom.sectionActive = IF targetId \in Sections
                                  THEN s.dom.sectionActive \cup {targetId}
                                  ELSE s.dom.sectionActive]

\* The click listener of a button of the bar
navItemClick(s, item) ==
  LET targetId == item IN
  [s EXCEPT !.dom.navActive = {item},
            !.dom.sectionActive = IF targetId \in Sections THEN {targetId} ELSE {}]

----------------------------------------------------------------------------
(* Scheduling *)

\* A continuation of a settled promise runs before any other task.
NoMicrotask == \A i \in 1..Len(playCalls) : ~playCalls[i].settled

\* The listeners of the events the audio element has queued run before the
\* tasks of later user input and network responses.
NoMediaEvent == ~mediaEvents.icons /\ ~mediaEvents.timeupdate

Idle == NoMicrotask /\ NoMediaEvent

\* Room for one more playTrack invocation
CanPlay == Len(playCalls) < MaxPlayCalls

Views == {"mini", "full"}

Visible(view) ==
  IF view = "mini" THEN ~dom.miniPlayerHidden ELSE ~dom.fullPlayerHidden

\* The values Math.floor(Math.random() * length) can take where it is called
RandomIndexes ==
  IF isShuffle /\ Len(currentPlaylist) > 0 THEN 0..(Len(currentPlaylist) - 1) ELSE {0}

----------------------------------------------------------------------------
(* Actions: user *)

\* The user checks the radio of a source and submits a query
SubmitSearch(filter) ==
  /\ Idle
  /\ Len(searchCalls) < MaxSearchCalls
  /\ filter \in Filters
  /\ Commit(searchMusic([State EXCEPT !.dom.sourceFilter = filter], filter))

\* The click listener of an item leaving the cursor to playTrack's findIndex
itemClickNoIndex(s, k, allowed) ==
  playTrack(s, s.musicResults.items[k], allowed)

\* The click listener of the item at position k of the list (data-index k - 1)
itemClick(s, k, allowed) ==
  playTrack([s EXCEPT !.currentTrackIndex = k - 1], s.musicResults.items[k], allowed)

ClickResult(k, allowed) ==
  /\ Idle
  /\ CanPlay
  /\ musicResults.kind = "items"
  /\ k \in 1..Len(musicResults.items)
  /\ Commit(itemClick(State, k, allowed))

\* The click listeners of the controls.  Each view has its own listener; the
\* click sound they all play is not part of the player state.
btnPlayClick(s, allowed) == togglePlay(s, allowed)

fPlayClick(s, allowed) == togglePlay(s, allowed)

btnPrevClick(s, random, allowed) == playPrev(s, random, allowed)

fPrevClick(s, random, allowed) == playPrev(s, random, allowed)

btnNextClick(s, random, allowed) == playNext(s, random, allowed)

\* fNext bound to playPrev
fNextClickAsPrev(s, random, allowed) == playPrev(s, random, allowed)

fNextClick(s, random, allowed) == playNext(s, random, allowed)

btnShuffleClick(s) == toggleShuffle(s)

fShuffleClick(s) == toggleShuffle(s)

btnRepeatClick(s) == toggleRepeat(s)

fRepeatClick(s) == toggleRepeat(s)

miniExpandClick(s) == showFull(s)

fullMinimizeClick(s) == showMini(s)

miniCloseClick(s) ==
  LET s1 == AudioSeek(AudioPause(s), 0) IN
  [s1 EXCEPT !.dom.miniPlayerHidden = TRUE,
             !.dom.fullPlayerHidden = TRUE,
             !.dom.navHidden = FALSE]

fullCloseClick(s) ==
  LET s1 == AudioSeek(AudioPause(s), 0) IN
  [s1 EXCEPT !.dom.miniPlayerHidden = TRUE,
             !.dom.fullPlayerHidden = TRUE,
             !.dom.navHidden = FALSE]

\* miniProgressClick assigning the ratio itself as the position
miniProgressClickUnscaled(s, num, den) ==
  IF s.audio.duration # 0
  THEN AudioSeek(s, num \div den)
  ELSE s

\* A tap on the wrapper of the mini progress bar at ratio num/den of its width
miniProgressClick(s, num, den) ==
  IF s.audio.duration # 0
  THEN AudioSeek(s, (num * s.audio.duration) \div den)
  ELSE s

\* A tap on the bar of the full player at ratio num/den of its width
fullBarClick(s, num, den) ==
  IF s.audio.duration # 0
  THEN AudioSeek(s, (num * s.audio.duration) \div den)
  ELSE s

ClickPlay(view, allowed) ==
  /\ Idle
  /\ Visible(view)
  /\ Commit(IF view = "mini" THEN btnPlayClick(State, allowed)
            ELSE fPlayClick(State, allowed))

ClickNext(view, random, allowed) ==
  /\ Idle
  /\ CanPlay
  /\ Visible(view)
  /\ Commit(IF view = "mini" THEN btnNextClick(State, random, allowed)
            ELSE fNextClick(State, random, allowed))

ClickPrev(view, random, allowed) ==
  /\ Idle
  /\ CanPlay
  /\ Visible(view)
  /\ Commit(IF view = "mini" THEN btnPrevClick(State, random, allowed)
            ELSE fPrevClick(State, random, allowed))

ClickShuffle(view) ==
  /\ Idle
  /\ Visible(view)
  /\ Commit(IF view = "mini" THEN btnShuffleClick(State)
            ELSE fShuffleClick(State))

ClickRepeat(view) ==
  /\ Idle
  /\ Visible(view)
  /\ Commit(IF view = "mini" THEN btnRepeatClick(State)
            ELSE fRepeatClick(State))

ClickExpand ==
  /\ Idle
  /\ Visible("mini")
  /\ Commit(miniExpandClick(State))

ClickMinimize ==
  /\ Idle
  /\ Visible("full")
  /\ Commit(fullMinimizeClick(State))

ClickClose(view) ==
  /\ Idle
  /\ Visible(view)
  /\ Commit(IF view = "mini" THEN miniCloseClick(State)
            ELSE fullCloseClick(State))

\* The ratios of the width of a bar at which it is tapped
SeekDen == 2

ClickProgress(view, num) ==
  /\ Idle
  /\ Visible(view)
  /\ num \in 0..SeekDen
  /\ Commit(IF view = "mini" THEN miniProgressClick(State, num, SeekDen)
            ELSE fullBarClick(State, num, SeekDen))

----------------------------------------------------------------------------
(* Actions: network *)

AudiusResponse(k, resp) ==
  /\ Idle
  /\ k \in 1..Len(searchCalls)
  /\ "audius" \in searchCalls[k].pending
  /\ Commit(searchAudiusDone(State, k, resp))

PipedResponse(k, resp) ==
  /\ Idle
  /\ k \in 1..Len(searchCalls)
  /\ "youtube" \in searchCalls[k].pending
  /\ Commit(searchPipedDone(State, k, resp))

StreamResponse(j, allowed) ==
  /\ Idle
  /\ j \in 1..Len(playCalls)
  /\ playCalls[j].stage = "fetch"
  /\ \E resp \in StreamResponses(playCalls[j].track.videoId) :
       Commit(playTrackResolved(State, j, resp, allowed))

----------------------------------------------------------------------------
(* Actions: the audio element *)

PlaySettled(j) ==
  /\ j \in 1..Len(playCalls)
  /\ playCalls[j].stage = "play"
  /\ playCalls[j].settled
  /\ Commit(playTrackSettled(State, j))

\* The media resource loads: metadata known, playback can start
MediaLoaded(s) ==
  [s EXCEPT !.audio.duration = TrackDuration,
            !.audio.bare = FALSE,
            !.playCalls = SettlePlayPromises(s.playCalls)]

AudioLoaded ==
  /\ Idle
  /\ audio.src # NoText /\ ~audio.error /\ audio.duration = 0
  /\ Commit(MediaLoaded(State))

\* The media resource cannot be loaded or decoded
AudioLoadError ==
  /\ Idle
  /\ audio.src # NoText /\ ~audio.error /\ audio.duration = 0
  /\ Commit(RejectBare([State EXCEPT !.audio.error = TRUE,
                                     !.playCalls = SettlePlayPromises(playCalls)]))

\* Playback advances; at the end of the resource the element pauses itself
AudioAdvance ==
  /\ Idle
  /\ ~audio.paused /\ audio.duration # 0 /\ audio.currentTime < audio.duration
  /\ LET t == Min(audio.currentTime + TimeStep, audio.duration)
         s1 == [State EXCEPT !.audio.currentTime = t,
                             !.mediaEvents.timeupdate = TRUE]
     IN Commit(IF t = audio.duration
               THEN [s1 EXCEPT !.audio.paused = TRUE, !.mediaEvents.icons = TRUE]
               ELSE s1)

\* The listener of 'play' and 'pause'
OnPlayPause ==
  /\ NoMicrotask
  /\ mediaEvents.icons
  /\ Commit(updatePlayIcons([State EXCEPT !.mediaEvents.icons = FALSE]))

\* onTimeUpdate without the repeat branch
onTimeUpdateNoRepeat(s, random, allowed) ==
  LET s1 == updateProgress(s) IN
  IF s1.audio.duration # 0 /\ s1.audio.currentTime >= s1.audio.duration - EndSlack
  THEN playNext(s1, random, allowed)
  ELSE s1

\* onTimeUpdate comparing with (audio.duration || 0) - 0.3
onTimeUpdateZeroDuration(s, random, allowed) ==
  LET s1 == updateProgress(s) IN
  IF s1.audio.currentTime >= s1.audio.duration - EndSlack
  THEN IF s1.isRepeat
       THEN AudioPlayBare(AudioSeek(s1, 0), allowed)
       ELSE playNext(s1, random, allowed)
  ELSE s1

\* The listener of 'timeupdate'
onTimeUpdate(s, random, allowed) ==
  LET s1 == updateProgress(s) IN
  IF s1.audio.duration # 0 /\ s1.audio.currentTime >= s1.audio.duration - EndSlack
  THEN IF s1.isRepeat
       THEN AudioPlayBare(AudioSeek(s1, 0), allowed)
       ELSE playNext(s1, random, allowed)
  ELSE s1

OnTimeUpdate(random, allowed) ==
  /\ NoMicrotask
  /\ ~mediaEvents.icons
  /\ CanPlay
  /\ mediaEvents.timeupdate
  /\ Commit(onTimeUpdate([State EXCEPT !.mediaEvents.timeupdate = FALSE],
                         random, allowed))

----------------------------------------------------------------------------

(* The player over the playlist a completed search has installed: every     *)
(* control of both views, the stream resolutions and the audio element.    *)

\* The playlists searchMusic installs from responses of at most this length
InstalledPlaylists(maxAudius, maxPiped) ==
  { AudiusTracks(a) \o YoutubeTracks(p) :
      a \in AudiusResponses(maxAudius), p \in PipedResponses(maxPiped) }

\* The state the script sets up
Fresh ==
  [isShuffle |-> FALSE, isRepeat |-> FALSE, audio |-> NewAudio,
   currentTrack |-> NullTrack, currentPlaylist |-> << >>,
   currentTrackIndex |-> -1, dom |-> InitDom,
   musicResults |-> [kind |-> "initial", items |-> << >>],
   playCalls |-> << >>, searchCalls |-> << >>,
   mediaEvents |-> [icons |-> FALSE, timeupdate |-> FALSE,
                    unhandled |-> FALSE],
   localStorage |-> [has |-> FALSE, musicVolume |-> NoText],
   nextLoop |-> [active |-> FALSE, nextIndex |-> -1]]

Start(s) ==
  /\ isShuffle = s.isShuffle
  /\ isRepeat = s.isRepeat
  /\ audio = s.audio
  /\ currentTrack = s.currentTrack
  /\ currentPlaylist = s.currentPlaylist
  /\ currentTrackIndex = s.currentTrackIndex
  /\ dom = s.dom
  /\ musicResults = s.musicResults
  /\ playCalls = s.playCalls
  /\ searchCalls = s.searchCalls
  /\ mediaEvents = s.mediaEvents
  /\ localStorage = s.localStorage
  /\ nextLoop = s.nextLoop

\* After the first search has completed
Init ==
  \E tracks \in InstalledPlaylists(MaxRawAudius, MaxRawPiped) :
    Start(searchFinish(Fresh, tracks))

Next ==
  \/ \E k \in 1..Len(musicResults.items), allowed \in BOOLEAN : ClickResult(k, allowed)
  \/ \E view \in Views, allowed \in BOOLEAN : ClickPlay(view, allowed)
  \/ \E view \in Views, random \in RandomIndexes, allowed \in BOOLEAN :
       ClickNext(view, random, allowed)
  \/ \E view \in Views, random \in RandomIndexes, allowed \in BOOLEAN :
       ClickPrev(view, random, allowed)
  \/ \E view \in Views : ClickShuffle(view)
  \/ \E view \in Views : ClickRepeat(view)
  \/ ClickExpand
  \/ ClickMinimize
  \/ \E view \in Views : ClickClose(view)
  \/ \E view \in Views, num \in 0..SeekDen : ClickProgress(view, num)
  \/ \E j \in 1..Len(playCalls), allowed \in BOOLEAN : StreamResponse(j, allowed)
  \/ \E j \in 1..Len(playCalls) : PlaySettled(j)
  \/ AudioLoaded
  \/ AudioLoadError
  \/ AudioAdvance
  \/ OnPlayPause
  \/ \E random \in RandomIndexes, allowed \in BOOLEAN : OnTimeUpdate(random, allowed)

Spec == Init /\ [][Next]_vars

----------------------------------------------------------------------------
(* Searching and selecting from the start of the script.  Here a search is *)
(* submitted when the one before has completed and a result is selected    *)
(* when the one before has loaded: overlapping selections are explored by  *)
(* Spec, overlapping searches by SpecMerge.                                *)

InitSearch == Start(Fresh)

SubmitNext(filter) ==
  /\ searchCalls = << >>
  /\ SubmitSearch(filter)

SelectResult(k, allowed) ==
  /\ playCalls = << >>
  /\ ClickResult(k, allowed)

NextSearch ==
  \/ \E filter \in Filters : SubmitNext(filter)
  \/ \E k \in 1..Len(searchCalls), resp \in AudiusResponses(MaxRawAudius) :
       AudiusResponse(k, resp)
  \/ \E k \in 1..Len(searchCalls), resp \in PipedResponses(MaxRawPiped) :
       PipedResponse(k, resp)
  \/ \E k \in 1..Len(musicResults.items), allowed \in BOOLEAN : SelectResult(k, allowed)
  \/ \E j \in 1..Len(playCalls), allowed \in BOOLEAN : StreamResponse(j, allowed)
  \/ \E j \in 1..Len(playCalls) : PlaySettled(j)
  \/ AudioLoaded
  \/ OnPlayPause

SpecSearch == InitSearch /\ [][NextSearch]_vars

----------------------------------------------------------------------------
(* The search alone, over longer result lists and overlapping searches *)

NextMerge ==
  \/ \E filter \in Filters : SubmitSearch(filter)
  \/ \E k \in 1..Len(searchCalls), resp \in AudiusResponses(WideRawAudius) :
       AudiusResponse(k, resp)
  \/ \E k \in 1..Len(searchCalls), resp \in PipedResponses(WideRawPiped) :
       PipedResponse(k, resp)

SpecMerge == InitSearch /\ [][NextMerge]_vars

----------------------------------------------------------------------------
(* Navigation alone, over longer playlists: selecting, next, previous and  *)
(* shuffle, with the stream resolutions and the loading they start.        *)

InitNav ==
  \E tracks \in InstalledPlaylists(WideRawAudius, WideRawPiped) :
    Start(searchFinish(Fresh, tracks))

NextNav ==
  \/ \E k \in 1..Len(musicResults.items), allowed \in BOOLEAN : ClickResult(k, allowed)
  \/ \E view \in Views, random \in RandomIndexes, allowed \in BOOLEAN :
       ClickNext(view, random, allowed)
  \/ \E view \in Views, random \in RandomIndexes, allowed \in BOOLEAN :
       ClickPrev(view, random, allowed)
  \/ \E view \in Views : ClickShuffle(view)
  \/ \E j \in 1..Len(playCalls), allowed \in BOOLEAN : StreamResponse(j, allowed)
  \/ \E j \in 1..Len(playCalls) : PlaySettled(j)
  \/ AudioLoaded
  \/ OnPlayPause

SpecNav == InitNav /\ [][NextNav]_vars

----------------------------------------------------------------------------
(* The player used one selection at a time: a track is selected (by a      *)
(* result, next or previous) only when no playTrack is in flight.  Every   *)
(* control of both views, the stream resolutions and the audio element.    *)

SelectNext(view, random, allowed) ==
  playCalls = << >> /\ ClickNext(view, random, allowed)

SelectPrev(view, random, allowed) ==
  playCalls = << >> /\ ClickPrev(view, random, allowed)

\* Searches, one at a time, whose responses are longer than the slice the
\* adapters take.
NextSlice ==
  \/ \E filter \in Filters : SubmitNext(filter)
  \/ \E k \in 1..Len(searchCalls), resp \in AudiusResponses(LongRaw) :
       AudiusResponse(k, resp)
  \/ \E k \in 1..Len(searchCalls), resp \in PipedResponses(LongRaw) :
       PipedResponse(k, resp)

SpecSlice == InitSearch /\ [][NextSlice]_vars

\* Searching and selecting as in SpecSearch, with next and previous: a
\* search may replace the playlist under a player that is shown.
NextBrowse ==
  \/ NextSearch
  \/ \E view \in Views, random \in RandomIndexes, allowed \in BOOLEAN :
       SelectNext(view, random, allowed)
  \/ \E view \in Views, random \in RandomIndexes, allowed \in BOOLEAN :
       SelectPrev(view, random, allowed)
  \/ ClickExpand

SpecBrowse == InitSearch /\ [][NextBrowse]_vars

\* The user moves the volume slider
SetVolume(text) ==
  /\ Idle
  /\ Commit(volumeInput(State, text))

\* The page is reloaded: the script starts again, over the localStorage the
\* page left
Reload ==
  Commit(loadSavedVolume([Fresh EXCEPT !.localStorage = localStorage]))

\* The flags and the volume, with selections one at a time, and reloads
NextVolume ==
  \/ \E k \in 1..Len(musicResults.items), allowed \in BOOLEAN :
       SelectResult(k, allowed)
  \/ \E j \in 1..Len(playCalls), allowed \in BOOLEAN : StreamResponse(j, allowed)
  \/ \E j \in 1..Len(playCalls) : PlaySettled(j)
  \/ AudioLoaded
  \/ OnPlayPause
  \/ \E view \in Views : ClickShuffle(view)
  \/ \E view \in Views : ClickRepeat(view)
  \/ \E text \in SliderValues : SetVolume(text)
  \/ Reload

SpecVolume == Init /\ [][NextVolume]_vars

\* The earlier playNext is called (next button, end of the track)
ResampleBegin(allowed) ==
  /\ Idle
  /\ playCalls = << >>
  /\ ~nextLoop.active
  /\ Visible("mini") \/ Visible("full")
  /\ Commit(resampleBegin(State, allowed))

\* A pass of its loop in which Math.floor(Math.random() * length) is random
ResampleStep(random, allowed) ==
  /\ nextLoop.active
  /\ random \in 0..(Len(currentPlaylist) - 1)
  /\ Commit(resampleStep(State, random, allowed))

\* No other task runs while the loop does
NextResample ==
  \/ \E allowed \in BOOLEAN : ResampleBegin(allowed)
  \/ \E random \in 0..(MaxRawAudius + MaxRawPiped - 1), allowed \in BOOLEAN :
       ResampleStep(random, allowed)
  \/ /\ ~nextLoop.active
     /\ \/ \E k \in 1..Len(musicResults.items), allowed \in BOOLEAN :
             SelectResult(k, allowed)
        \/ \E j \in 1..Len(playCalls), allowed \in BOOLEAN : StreamResponse(j, allowed)
        \/ \E j \in 1..Len(playCalls) : PlaySettled(j)
        \/ AudioLoaded
        \/ OnPlayPause
        \/ \E view \in Views : ClickShuffle(view)

SpecResample == Init /\ [][NextResample]_vars

\* Math.random() is fair: a value that can be drawn at every pass of the loop
\* is drawn at some pass
FairRandom ==
  \A random \in 0..(MaxRawAudius + MaxRawPiped - 1) :
    WF_vars(\E allowed \in BOOLEAN : ResampleStep(random, allowed))

SpecResampleFair == SpecResample /\ FairRandom

\* Selections one at a time, with play/pause and close, the stream
\* resolutions and the loading of the media
NextLoad ==
  \/ \E k \in 1..Len(musicResults.items), allowed \in BOOLEAN :
       SelectResult(k, allowed)
  \/ \E view \in Views, allowed \in BOOLEAN : ClickPlay(view, allowed)
  \/ \E view \in Views : ClickClose(view)
  \/ \E j \in 1..Len(playCalls), allowed \in BOOLEAN : StreamResponse(j, allowed)
  \/ \E j \in 1..Len(playCalls) : PlaySettled(j)
  \/ AudioLoaded
  \/ AudioLoadError
  \/ OnPlayPause
  \/ \E random \in RandomIndexes, allowed \in BOOLEAN : OnTimeUpdate(random, allowed)

SpecLoad == Init /\ [][NextLoad]_vars

\* Every request completes, successfully or not (the fetch of the streams
\* and the loading of the media), and the page runs the continuations and
\* listeners that are ready
RequestsComplete ==
  /\ WF_vars(\E j \in 1..Len(playCalls), allowed \in BOOLEAN : StreamResponse(j, allowed))
  /\ WF_vars(AudioLoaded \/ AudioLoadError)
  /\ WF_vars(\E j \in 1..Len(playCalls) : PlaySettled(j))
  /\ WF_vars(OnPlayPause)
  /\ WF_vars(\E random \in RandomIndexes, allowed \in BOOLEAN :
               OnTimeUpdate(random, allowed))

SpecLoadFair == SpecLoad /\ RequestsComplete

\* The player open on an Audius track: the state once result k of the
\* first search has been clicked, the 'play' listener has run, the media has
\* loaded and playTrack has returned
OpenedOn(tracks, k) ==
  LET s0 == searchFinish(Fresh, tracks)
      s1 == playTrack([s0 EXCEPT !.currentTrackIndex = k - 1], tracks[k], TRUE)
      s2 == updatePlayIcons([s1 EXCEPT !.mediaEvents.icons = FALSE])
  IN playTrackSettled(MediaLoaded(s2), 1)

InitOpen ==
  \E tracks \in InstalledPlaylists(MaxRawAudius, MaxRawPiped) :
    \E k \in 1..Len(tracks) :
      /\ tracks[k].source = "audius"
      /\ Start(OpenedOn(tracks, k))

\* A result is selected while a view of the player is shown
SelectOpen(k, allowed) ==
  /\ Visible("mini") \/ Visible("full")
  /\ SelectResult(k, allowed)

\* From an open player, selections are made only while a view is shown: once
\* the player is closed the user selects nothing more.
NextClose ==
  \/ \E k \in 1..Len(musicResults.items), allowed \in BOOLEAN : SelectOpen(k, allowed)
  \/ \E view \in Views : ClickClose(view)
  \/ ClickExpand
  \/ \E j \in 1..Len(playCalls), allowed \in BOOLEAN : StreamResponse(j, allowed)
  \/ \E j \in 1..Len(playCalls) : PlaySettled(j)
  \/ AudioLoaded
  \/ AudioLoadError
  \/ OnPlayPause
  \/ \E random \in RandomIndexes, allowed \in BOOLEAN : OnTimeUpdate(random, allowed)

SpecClose == InitOpen /\ [][NextClose]_vars

\* Searches that overlap each other and the selections: at most
\* MaxSearchCalls invocations of searchMusic and playTrack are in flight at
\* once, one playTrack among them (Spec explores the selections that overlap
\* each other)
OverlapRoom == Len(searchCalls) + Len(playCalls) < MaxSearchCalls

NextOverlap ==
  \/ \E filter \in Filters : OverlapRoom /\ SubmitSearch(filter)
  \/ \E k \in 1..Len(searchCalls), resp \in AudiusResponses(MaxRawAudius) :
       AudiusResponse(k, resp)
  \/ \E k \in 1..Len(searchCalls), resp \in PipedResponses(MaxRawPiped) :
       PipedResponse(k, resp)
  \/ \E k \in 1..Len(musicResults.items), allowed \in BOOLEAN :
       OverlapRoom /\ SelectResult(k, allowed)
  \/ \E j \in 1..Len(playCalls), allowed \in BOOLEAN : StreamResponse(j, allowed)
  \/ \E j \in 1..Len(playCalls) : PlaySettled(j)
  \/ OnPlayPause

SpecOverlap == InitSearch /\ [][NextOverlap]_vars

\* A button of the bottom navigation is clicked; the bar is hidden while the
\* full player is shown
NavClick(item) ==
  /\ Idle
  /\ ~dom.navHidden
  /\ Commit(navItemClick(State, item))

\* The bar and the player: the sections are changed while a track is
\* selected, expanded, minimized and closed
NextSections ==
  \/ \E item \in NavItems : NavClick(item)
  \/ \E k \in 1..Len(musicResults.items), allowed \in BOOLEAN :
       SelectResult(k, allowed)
  \/ \E j \in 1..Len(playCalls), allowed \in BOOLEAN : StreamResponse(j, allowed)
  \/ \E j \in 1..Len(playCalls) : PlaySettled(j)
  \/ AudioLoaded
  \/ OnPlayPause
  \/ ClickExpand
  \/ ClickMinimize
  \/ \E view \in Views : ClickClose(view)
  \/ \E random \in RandomIndexes, allowed \in BOOLEAN : OnTimeUpdate(random, allowed)

SpecSections == Init /\ [][NextSections]_vars

NextPlayer ==
  \/ \E k \in 1..Len(musicResults.items), allowed \in BOOLEAN :
       SelectResult(k, allowed)
  \/ \E view \in Views, allowed \in BOOLEAN : ClickPlay(view, allowed)
  \/ \E view \in Views, random \in RandomIndexes, allowed \in BOOLEAN :
       SelectNext(view, random, allowed)
  \/ \E view \in Views, random \in RandomIndexes, allowed \in BOOLEAN :
       SelectPrev(view, random, allowed)
  \/ \E view \in Views : ClickShuffle(view)
  \/ \E view \in Views : ClickRepeat(view)
  \/ ClickExpand
  \/ ClickMinimize
  \/ \E view \in Views : ClickClose(view)
  \/ \E view \in Views, num \in 0..SeekDen : ClickProgress(view, num)
  \/ \E j \in 1..Len(playCalls), allowed \in BOOLEAN : StreamResponse(j, allowed)
  \/ \E j \in 1..Len(playCalls) : PlaySettled(j)
  \/ AudioLoaded
  \/ AudioLoadError
  \/ AudioAdvance
  \/ OnPlayPause
  \/ \E random \in RandomIndexes, allowed \in BOOLEAN : OnTimeUpdate(random, allowed)

SpecPlayer == Init /\ [][NextPlayer]_vars

----------------------------------------------------------------------------
(* What the views show, and what the audio element plays *)

DisplayTitle(track) == Or(track.title, "Sin titulo")

\* The views show this track's title and artist
Shows(track) ==
  /\ dom.miniTitle = DisplayTitle(track)
  /\ dom.fullTrack = DisplayTitle(track)
  /\ dom.miniArtist = Or(track.artist, "")
  /\ dom.fullArtist = Or(track.artist, "")

\* No track has been shown yet
ShowsNothing == dom.miniTitle = "" /\ dom.fullTrack = ""

Loading == playCalls # << >>

----------------------------------------------------------------------------
(* C1 - C4: selection, stream resolution and the cursor *)

\* C1: a selection supersedes the selections before it: the resolution of a
\* track that is no longer currentTrack (an earlier, slower one) does not
\* overwrite the source of the audio element nor the title and artist of
\* the views, so that they end as those of the track selected last.
StaleResolution(j) ==
  /\ j \in 1..Len(playCalls)
  /\ playCalls[j].stage = "fetch"
  /\ playCalls[j].track # currentTrack
  /\ \E allowed \in BOOLEAN : StreamResponse(j, allowed)

C1_LastSelectionWins ==
  [][\A j \in 1..Len(playCalls) :
       StaleResolution(j) =>
         /\ audio'.src = audio.src
         /\ dom'.miniTitle = dom.miniTitle /\ dom'.miniArtist = dom.miniArtist
         /\ dom'.fullTrack = dom.fullTrack /\ dom'.fullArtist = dom.fullArtist]_vars

\* C2: a failed stream resolution leaves currentTrack and the cursor as they
\* were before the selection; stated for selections made before any track
\* was loaded: as long as no track has been shown and nothing is loading,
\* no track is current and the cursor is -1.
C2_FailedLoadRestoresSelection ==
  (~Loading /\ ShowsNothing) =>
     (currentTrack = NullTrack /\ currentTrackIndex = -1)

\* C3: a failed stream resolution leaves the previously loaded track assigned
\* to the audio element: once a track has been shown and nothing is loading,
\* the audio element has a source.
C3_FailedLoadKeepsSource ==
  (~Loading /\ ~ShowsNothing) => audio.src # NoText

\* C4: the cursor is -1 or an index of the playlist whose track is
\* currentTrack.
C4_CursorConsistent ==
  \/ currentTrackIndex = -1
  \/ /\ currentTrackIndex >= 0
     /\ currentTrackIndex < Len(currentPlaylist)
     /\ currentPlaylist[currentTrackIndex + 1] = currentTrack

----------------------------------------------------------------------------
(* C5 - C7: next and previous *)

\* The state after k successive calls of playNext()
RECURSIVE AfterNexts(_, _)
AfterNexts(s, k) ==
  IF k = 0 THEN s ELSE playNext(AfterNexts(s, k - 1), 0, TRUE)

\* C5: with shuffle off and a non-empty playlist of n tracks, k calls of
\* next() move the cursor from i to (i + k) mod n: the indices are visited in
\* cyclic order, and from index 0 the cursor is back at 0 after n calls and
\* not before.
C5_NextCycles ==
  LET n == Len(currentPlaylist) IN
  (~isShuffle /\ n > 0) =>
     /\ \A k \in 1..n :
          AfterNexts(State, k).currentTrackIndex = (currentTrackIndex + k) % n
     /\ currentTrackIndex = 0 =>
          /\ AfterNexts(State, n).currentTrackIndex = 0
          /\ \A k \in 1..(n - 1) : AfterNexts(State, k).currentTrackIndex # 0

\* A playlist of five tracks with the cursor back at index 0: the track at
\* index 4 is the one shown, the track at index 0 is current and loading.
C5_Witness ==
  /\ ~isShuffle
  /\ Len(currentPlaylist) = 5
  /\ currentTrackIndex = 0
  /\ currentTrack = currentPlaylist[1]
  /\ Shows(currentPlaylist[5])
  /\ Loading
  /\ AfterNexts(State, 3).currentTrackIndex = 3

\* A step of next() with shuffle on over more than one track
ShuffledNext ==
  /\ isShuffle
  /\ Len(currentPlaylist) > 1
  /\ \E view \in Views, random \in RandomIndexes, allowed \in BOOLEAN :
       ClickNext(view, random, allowed)

\* C6: with shuffle on and more than one track, next() never leaves the
\* cursor where it was.
C6_ShuffleNextDistinct ==
  [][ShuffledNext => currentTrackIndex' # currentTrackIndex]_vars

\* C7: with shuffle off, previous() followed by next() from an index of a
\* non-empty playlist returns the cursor to that index.
C7_PrevNextRoundTrip ==
  (/\ ~isShuffle
   /\ Len(currentPlaylist) > 0
   /\ currentTrackIndex >= 0
   /\ currentTrackIndex < Len(currentPlaylist)) =>
     playNext(playPrev(State, 0, TRUE), 0, TRUE).currentTrackIndex = currentTrackIndex

\* previous() has wrapped from index 0 to the last of at least three tracks,
\* from where next() leads back to 0
C7_Witness ==
  /\ ~isShuffle
  /\ Len(currentPlaylist) >= 3
  /\ currentTrackIndex = Len(currentPlaylist) - 1
  /\ currentTrack = currentPlaylist[Len(currentPlaylist)]
  /\ Shows(currentPlaylist[1])
  /\ Loading
  /\ playNext(State, 0, TRUE).currentTrackIndex = 0

----------------------------------------------------------------------------
(* C8 - C10: the search *)

AdapterFailed(resp) == resp.status # "ok"

\* The search of call k has completed with these tracks
Installs(k, tracks) ==
  /\ currentPlaylist' = tracks
  /\ musicResults' = IF Len(tracks) = 0
                     THEN [kind |-> "empty", items |-> << >>]
                     ELSE [kind |-> "items", items |-> tracks]
  /\ searchCalls' = RemoveAt(searchCalls, k)

\* C8: a failed adapter contributes no track and the search goes on: after
\* a failed Audius fetch the Piped request is issued (filter all) or the
\* playlist collected so far is installed; after a failed Piped fetch the
\* tracks collected from Audius are installed; a succeeding Piped fetch
\* after a failed Audius fetch installs exactly the Piped tracks.  Every
\* search in flight awaits a response that completes it.
C8_AdapterFailureIsolated ==
  [][\A k \in 1..Len(searchCalls) :
       LET call == searchCalls[k] IN
       /\ call.pending # {}
       /\ \A resp \in AudiusResponses(WideRawAudius) :
            (AdapterFailed(resp) /\ AudiusResponse(k, resp)) =>
               IF call.filter = "all"
               THEN /\ Len(searchCalls') = Len(searchCalls)
                    /\ searchCalls'[k].pending = {"youtube"}
                    /\ searchCalls'[k].tracks = << >>
               ELSE Installs(k, << >>)
       /\ \A resp \in PipedResponses(WideRawPiped) :
            PipedResponse(k, resp) =>
               IF AdapterFailed(resp) THEN Installs(k, call.tracks)
               ELSE Installs(k, call.tracks \o YoutubeTracks(resp))]_vars

\* A playlist of Piped tracks only, installed by a search over both providers
C8_Witness ==
  /\ Len(currentPlaylist) >= 2
  /\ \A i \in 1..Len(currentPlaylist) : currentPlaylist[i].source = "youtube"
  /\ musicResults = [kind |-> "items", items |-> currentPlaylist]
  /\ searchCalls = << >>

\* C9: the playlist is the tracks of an Audius response followed by the
\* tracks of a Piped response, each in the order of the response.
C9_MergedInProviderOrder ==
  /\ currentPlaylist \in InstalledPlaylists(WideRawAudius, WideRawPiped)
  /\ \A i, j \in 1..Len(currentPlaylist) :
       (i < j /\ currentPlaylist[j].source = "audius") =>
          currentPlaylist[i].source = "audius"

\* Two Audius tracks at indices 0-1 and three Piped tracks at indices 2-4
C9_Witness ==
  /\ Len(currentPlaylist) = 5
  /\ \A i \in 1..2 : currentPlaylist[i].source = "audius"
  /\ \A i \in 3..5 : currentPlaylist[i].source = "youtube"
  /\ musicResults = [kind |-> "items", items |-> currentPlaylist]

----------------------------------------------------------------------------
(* C11 - C12: the end of a track *)

\* The test of the 'timeupdate' listener: the position is within 0.3 s of
\* the end of a resource of known duration
AtEnd ==
  /\ audio.duration # 0
  /\ audio.currentTime >= audio.duration - EndSlack

\* C11: when a progress event finds the track at its end and repeat is on,
\* the position is reset to 0 on the same source, the cursor and the
\* current track are unchanged, no playTrack is started, and playback
\* resumes where the browser lets play() start.
C11_RepeatRestartsTrack ==
  [][\A random \in RandomIndexes, allowed \in BOOLEAN :
       (isRepeat /\ AtEnd /\ OnTimeUpdate(random, allowed)) =>
          /\ audio'.currentTime = 0
          /\ audio'.src = audio.src
          /\ audio'.duration = audio.duration
          /\ currentTrackIndex' = currentTrackIndex
          /\ currentTrack' = currentTrack
          /\ currentPlaylist' = currentPlaylist
          /\ playCalls' = playCalls
          /\ allowed => ~audio'.paused]_vars

\* The track has run to its end with repeat on and plays again from 0
C11_Witness ==
  /\ isRepeat
  /\ ~audio.paused
  /\ audio.currentTime = 0
  /\ audio.duration = TrackDuration
  /\ dom.miniProgressBar = 100
  /\ mediaEvents.timeupdate
  /\ ~Loading

\* C12: with repeat off, the progress event that finds the track at its end
\* moves the cursor by one step of next() and leaves the audio element
\* reset, so that the progress events that follow find no track at its end;
\* a progress event that does not find the track at its end starts no
\* playTrack and leaves the cursor alone.
C12_NextOncePerEnd ==
  [][\A random \in RandomIndexes, allowed \in BOOLEAN :
       OnTimeUpdate(random, allowed) =>
          IF ~isRepeat /\ AtEnd /\ Len(currentPlaylist) > 0
          THEN /\ currentTrackIndex' = nextIndex(State, random)
               /\ currentTrack' = currentPlaylist[currentTrackIndex' + 1]
               /\ Len(playCalls') = Len(playCalls) + 1
               /\ ~AtEnd'
          ELSE /\ currentTrackIndex' = currentTrackIndex
               /\ currentTrack' = currentTrack
               /\ playCalls' = playCalls]_vars

\* The first track has run to its end with repeat and shuffle off: the bars
\* are full, the second track is current and its load is under way
C12_Witness ==
  /\ ~isRepeat /\ ~isShuffle
  /\ dom.miniProgressBar = 100
  /\ Shows(currentPlaylist[1])
  /\ currentTrackIndex = 1
  /\ currentTrack = currentPlaylist[2]
  /\ Len(playCalls) = 1
  /\ audio.currentTime = 0

----------------------------------------------------------------------------
(* C13 - C16: close, play/pause and seek *)

\* A click on the close button of the view that is visible
CloseStep == \E view \in Views : ClickClose(view)

\* C13: close pauses the audio, resets the position to 0, sets currentTrack
\* to none and the cursor to -1, and hides both views.
C13_CloseResetsPlayer ==
  [][CloseStep =>
       /\ audio'.paused
       /\ audio'.currentTime = 0
       /\ currentTrack' = NullTrack
       /\ currentTrackIndex' = -1
       /\ dom'.miniPlayerHidden
       /\ dom'.fullPlayerHidden]_vars

\* C14: after close, shuffle and repeat are off and so are their indicators
\* in both views.
C14_CloseResetsFlags ==
  [][CloseStep =>
       /\ ~isShuffle' /\ ~isRepeat'
       /\ ~dom'.btnShuffleActive /\ ~dom'.fShuffleActive
       /\ ~dom'.btnRepeatActive /\ ~dom'.fRepeatActive]_vars

\* C15: wherever the play/pause control can be activated, a track has been
\* selected (the cursor is not -1); togglePlay pauses a playing element, and
\* otherwise the element has a track loaded and, unless the resource failed
\* to load, comes to play.
C15_TogglePlayOnLoadedTrack ==
  (Idle /\ \E view \in Views : Visible(view)) =>
     /\ currentTrackIndex # -1
     /\ ~audio.paused => togglePlay(State, TRUE).audio.paused
     /\ audio.paused =>
          /\ audio.src # NoText
          /\ ~audio.error => ~togglePlay(State, TRUE).audio.paused

\* C16: a tap at ratio f on either progress bar sets the position to
\* f * duration, within [0, duration], when the duration is known, and
\* changes nothing at all when it is not.
C16_SeekSetsFraction ==
  \A num \in 0..SeekDen :
    LET mini == miniProgressClick(State, num, SeekDen)
        full == fullBarClick(State, num, SeekDen)
    IN IF audio.duration # 0
       THEN /\ mini.audio.currentTime * SeekDen = num * audio.duration
            /\ full.audio.currentTime * SeekDen = num * audio.duration
            /\ mini.audio.currentTime \in 0..audio.duration
            /\ full.audio.currentTime \in 0..audio.duration
       ELSE mini = State /\ full = State

\* The paused element has been moved to the middle of the track and the
\* progress event of the move is queued
C16_Witness ==
  /\ audio.paused
  /\ audio.duration = TrackDuration
  /\ audio.currentTime * 2 = audio.duration
  /\ mediaEvents.timeupdate

----------------------------------------------------------------------------
(* C17 - C20: the flags and the two views *)

\* The variables other than the flags and the elements of the players
Playback ==
  << audio, currentTrack, currentPlaylist, currentTrackIndex, musicResults,
     playCalls, searchCalls, mediaEvents >>

\* C17: a click on shuffle flips isShuffle and its two indicators and
\* changes nothing else (isRepeat, playlist, cursor, current track, audio);
\* a click on repeat does the same for isRepeat; toggling either flag twice
\* restores the state.
C17_TogglesArePure ==
  [][/\ (\E view \in Views : ClickShuffle(view)) =>
          /\ isShuffle' = ~isShuffle
          /\ isRepeat' = isRepeat
          /\ UNCHANGED Playback
          /\ dom' = [dom EXCEPT !.btnShuffleActive = ~isShuffle,
                                !.fShuffleActive = ~isShuffle]
          /\ toggleShuffle(toggleShuffle(State)) = State
     /\ (\E view \in Views : ClickRepeat(view)) =>
          /\ isRepeat' = ~isRepeat
          /\ isShuffle' = isShuffle
          /\ UNCHANGED Playback
          /\ dom' = [dom EXCEPT !.btnRepeatActive = ~isRepeat,
                                !.fRepeatActive = ~isRepeat]
          /\ toggleRepeat(toggleRepeat(State)) = State]_vars

\* Shuffle was switched on and repeat off while a track plays
C17_Witness ==
  /\ isShuffle /\ ~isRepeat
  /\ dom.btnShuffleActive /\ dom.fShuffleActive
  /\ ~dom.btnRepeatActive /\ ~dom.fRepeatActive
  /\ ~audio.paused
  /\ audio.currentTime > 0

\* C18: expand and minimize change which view (and whether the navigation
\* bar) is visible and nothing else: playlist, cursor, current track, flags
\* and the audio element are unchanged.
C18_ExpandCollapseOnlyVisibility ==
  [][(ClickExpand \/ ClickMinimize) =>
       /\ UNCHANGED << isShuffle, isRepeat, Playback >>
       /\ dom' = [dom EXCEPT !.miniPlayerHidden = ~dom.miniPlayerHidden,
                             !.fullPlayerHidden = ~dom.fullPlayerHidden,
                             !.navHidden = ~dom.navHidden]
       /\ dom'.miniPlayerHidden # dom'.fullPlayerHidden]_vars

\* The full player is shown over a track that is playing
C18_Witness ==
  /\ ~dom.fullPlayerHidden /\ dom.miniPlayerHidden /\ dom.navHidden
  /\ ~audio.paused
  /\ audio.currentTime > 0
  /\ audio.src # NoText

\* C19: a control of the mini player and the corresponding control of the
\* full player lead from the same state, with the same inputs, to the same
\* state.
C19_ViewsAgree ==
  /\ \A allowed \in BOOLEAN :
       btnPlayClick(State, allowed) = fPlayClick(State, allowed)
  /\ \A random \in RandomIndexes, allowed \in BOOLEAN :
       /\ btnNextClick(State, random, allowed) = fNextClick(State, random, allowed)
       /\ btnPrevClick(State, random, allowed) = fPrevClick(State, random, allowed)
  /\ btnShuffleClick(State) = fShuffleClick(State)
  /\ btnRepeatClick(State) = fRepeatClick(State)
  /\ miniCloseClick(State) = fullCloseClick(State)
  /\ \A num \in 0..SeekDen :
       miniProgressClick(State, num, SeekDen) = fullBarClick(State, num, SeekDen)

\* The full player is shown with both flags on over a track of a playlist
\* of three that was paused and moved to its middle
C19_Witness ==
  /\ ~dom.fullPlayerHidden
  /\ isShuffle /\ isRepeat
  /\ Len(currentPlaylist) = 3
  /\ audio.paused
  /\ audio.duration = TrackDuration
  /\ audio.currentTime * 2 = audio.duration

\* C20: both views show the same title and artist, the same play/pause
\* icon, the same shuffle and repeat indicators and the same progress.
C20_ViewsShowSameState ==
  /\ dom.miniTitle = dom.fullTrack
  /\ dom.miniArtist = dom.fullArtist
  /\ dom.playIconHidden = dom.fPlayIconHidden
  /\ dom.pauseIconHidden = dom.fPauseIconHidden
  /\ dom.playIconHidden # dom.pauseIconHidden
  /\ dom.btnShuffleActive = dom.fShuffleActive
  /\ dom.btnShuffleActive = isShuffle
  /\ dom.btnRepeatActive = dom.fRepeatActive
  /\ dom.btnRepeatActive = isRepeat
  /\ dom.miniProgressBar = dom.fullProgressBar

\* Both views show the pause icon, half the bar, a title and shuffle on
C20_Witness ==
  /\ dom.playIconHidden /\ dom.fPlayIconHidden
  /\ dom.miniProgressBar = 50 /\ dom.fullProgressBar = 50
  /\ dom.miniTitle # "" /\ dom.fullTrack # ""
  /\ dom.btnShuffleActive /\ dom.fShuffleActive

----------------------------------------------------------------------------
(* C22 - C23, C26 - C27, C29 - C30 *)

\* C22: every track of the result list can be played from what it carries:
\* an Audius track has a stream URL and a Piped track has a video id.
C22_RenderedTracksHaveStreamRef ==
  \A i \in 1..Len(musicResults.items) :
    LET track == musicResults.items[i] IN
    /\ track.source = "audius" => track.stream # NoText
    /\ track.source = "youtube" => track.videoId # NoText

\* The results a search with this filter can end with
ResultsOf(filter) ==
  LET audiusParts == IF filter = "youtube" THEN { << >> }
                     ELSE { AudiusTracks(a) : a \in AudiusResponses(WideRawAudius) }
      pipedParts == IF filter = "audius" THEN { << >> }
                    ELSE { YoutubeTracks(b) : b \in PipedResponses(WideRawPiped) }
  IN { a \o b : a \in audiusParts, b \in pipedParts }

\* A search completes: its invocation leaves the ones in flight
Completes(k) ==
  /\ k \in 1..Len(searchCalls)
  /\ searchCalls' = RemoveAt(searchCalls, k)

\* C23: when a search completes the playlist is a result of that search
\* alone, whatever the playlist was, the list shows exactly the playlist, and
\* an empty result shows the no-results message.
C23_SearchReplacesPlaylist ==
  [][\A k \in 1..Len(searchCalls) :
       Completes(k) =>
          /\ currentPlaylist' \in ResultsOf(searchCalls[k].filter)
          /\ \E rest \in ResultsOf(searchCalls[k].filter) :
               currentPlaylist' = searchCalls[k].tracks \o rest
          /\ musicResults'.items = currentPlaylist'
          /\ musicResults'.kind =
               IF currentPlaylist' = << >> THEN "empty" ELSE "items"]_vars

\* A search found nothing while another is in flight over the tracks it has
\* collected from Audius
C23_Witness ==
  /\ musicResults.kind = "empty"
  /\ currentPlaylist = << >>
  /\ \E k \in 1..Len(searchCalls) : Len(searchCalls[k].tracks) = 2

\* The entry of audioStreams the claim selects: the first that is not
\* video-only, else the first
AudioOnlyFirst(streams) ==
  LET audioOnly == SelectSeq(streams, LAMBDA st : ~st.videoOnly) IN
  IF audioOnly # << >> THEN Slice(audioOnly, 1) ELSE Slice(streams, 1)

\* C26: a resolution that answers loads the first entry of audioStreams that
\* is not video-only, else the first entry, and fails only when there is no
\* entry or the chosen one has no url.
C26_PicksAudioOnlyStream ==
  \A j \in 1..Len(playCalls) :
    playCalls[j].stage = "fetch" =>
      \A resp \in StreamResponses(playCalls[j].track.videoId) :
        resp.status = "ok" =>
          LET streams == IF resp.hasStreams THEN resp.audioStreams ELSE << >>
              pick == AudioOnlyFirst(streams)
              after == playTrackResolved(State, j, resp, TRUE)
          IN IF pick # << >> /\ pick[1].url # NoText
             THEN after.audio.src = pick[1].url
             ELSE after.audio.src = audio.src

\* C27: a search filtered to one provider has only that provider's request
\* outstanding, never the other's, and completes with tracks of that
\* provider only.
C27_FilterSelectsAdapters ==
  [][\A k \in 1..Len(searchCalls) :
       LET call == searchCalls[k] IN
       /\ call.filter = "audius" => "youtube" \notin call.pending
       /\ call.filter = "youtube" => "audius" \notin call.pending
       /\ (call.filter # "all" /\ Completes(k)) =>
            \A i \in 1..Len(currentPlaylist') :
              currentPlaylist'[i].source = call.filter]_vars

\* A search of Audius alone has installed two tracks and a search of Piped
\* alone is in flight
C27_Witness ==
  /\ Len(currentPlaylist) = 2
  /\ \A i \in 1..2 : currentPlaylist[i].source = "audius"
  /\ \E k \in 1..Len(searchCalls) :
       searchCalls[k].filter = "youtube" /\ searchCalls[k].pending = {"youtube"}

\* C29: on an empty playlist next and previous change nothing; on a
\* non-empty one each moves the cursor to its index, makes the track there
\* the current one and starts a playTrack for it.
C29_EmptyPlaylistNoOp ==
  \A random \in RandomIndexes, allowed \in BOOLEAN :
    LET next == playNext(State, random, allowed)
        prev == playPrev(State, random, allowed)
    IN IF Len(currentPlaylist) = 0
       THEN next = State /\ prev = State
       ELSE /\ next.currentTrackIndex = nextIndex(State, random)
            /\ next.currentTrack = currentPlaylist[next.currentTrackIndex + 1]
            /\ Len(next.playCalls) = Len(playCalls) + 1
            /\ next.playCalls[Len(next.playCalls)].track = next.currentTrack
            /\ prev.currentTrackIndex = prevIndex(State, random)
            /\ prev.currentTrack = currentPlaylist[prev.currentTrackIndex + 1]
            /\ Len(prev.playCalls) = Len(playCalls) + 1
            /\ prev.playCalls[Len(prev.playCalls)].track = prev.currentTrack

\* The full player is shown over a track reached with next, a later search
\* has replaced the playlist by an empty one, and the buttons can be pressed
C29_Witness ==
  /\ Len(currentPlaylist) = 0
  /\ Visible("full")
  /\ currentTrackIndex = 1
  /\ audio.src # NoText
  /\ playCalls = << >>
  /\ Idle

\* C30: with shuffle on, previous moves the cursor to the random index,
\* whichever index that is, and so not always to the index before.
C30_ShufflePrevRandom ==
  (isShuffle /\ Len(currentPlaylist) > 0) =>
     /\ \A random \in 0..(Len(currentPlaylist) - 1) :
          playPrev(State, random, TRUE).currentTrackIndex = random
     /\ Len(currentPlaylist) > 1 =>
          \E random \in RandomIndexes :
            playPrev(State, random, TRUE).currentTrackIndex
              # JsMod(currentTrackIndex - 1 + Len(currentPlaylist), Len(currentPlaylist))

\* With shuffle on, a previous from index 0 of five tracks has led to
\* index 2
C30_Witness ==
  /\ isShuffle
  /\ Len(currentPlaylist) = 5
  /\ Shows(currentPlaylist[1])
  /\ currentTrackIndex = 2
  /\ currentTrack = currentPlaylist[3]
  /\ Loading

----------------------------------------------------------------------------
(* C28 *)

\* The tracks of the playlist that come from this provider
FromProvider(source) ==
  SelectSeq(currentPlaylist, LAMBDA track : track.source = source)

\* C28: a search leaves at most six tracks of each provider in the
\* playlist, the Audius ones all made from the first six raw entries of the
\* response, and it starts no playTrack and loads nothing into the audio
\* element.
C28_AdaptersTruncate ==
  /\ Len(FromProvider("audius")) <= SliceLimit
  /\ Len(FromProvider("youtube")) <= SliceLimit
  /\ Len(currentPlaylist) <= 2 * SliceLimit
  /\ \A i \in 1..Len(currentPlaylist) :
       currentPlaylist[i].source = "audius" =>
         \E n \in 1..SliceLimit : currentPlaylist[i] = AudiusTrack(CatAudius[n])
  /\ playCalls = << >>
  /\ audio.src = NoText

\* Responses of seven raw entries each have given five Audius tracks (the
\* second raw entry has no stream) and six Piped tracks
C28_Witness ==
  /\ Len(FromProvider("audius")) = SliceLimit - 1
  /\ Len(FromProvider("youtube")) = SliceLimit
  /\ currentPlaylist[SliceLimit - 1] = AudiusTrack(CatAudius[SliceLimit])
  /\ currentPlaylist[2 * SliceLimit - 1] = PipedTrack(CatPiped[SliceLimit])
  /\ musicResults.items = currentPlaylist

----------------------------------------------------------------------------
(* C21 *)

\* The element is playing, or about to once its data arrives: not paused,
\* with a source that has not failed
ActuallyPlaying == ~audio.paused /\ ~audio.error /\ audio.src # NoText

\* Both views show this icon and hide the other
ShowsIcon(icon) ==
  /\ dom.playIconHidden = (icon = "pause")
  /\ dom.pauseIconHidden = (icon = "play")
  /\ dom.fPlayIconHidden = (icon = "pause")
  /\ dom.fPauseIconHidden = (icon = "play")

\* C21: once the listeners of the audio element have run, both views show
\* the pause icon when the audio is playing and the play icon when it is
\* not.
C21_IconsMirrorAudio ==
  Idle => IF ActuallyPlaying THEN ShowsIcon("pause") ELSE ShowsIcon("play")

----------------------------------------------------------------------------
(* C24 *)

\* C24: no rejection of a play() goes unhandled, and when the source has
\* failed and every playTrack has returned the audio is paused.
C24_PlayFailureHandled ==
  /\ ~mediaEvents.unhandled
  /\ (Idle /\ playCalls = << >> /\ audio.error) => audio.paused

----------------------------------------------------------------------------
(* C25 *)

----------------------------------------------------------------------------
(* C31 *)

\* The state with this cursor and this shuffle flag
WithCursor(cursor, shuffle) ==
  [State EXCEPT !.currentTrackIndex = cursor, !.isShuffle = shuffle]

\* C31: on a playlist that is not empty, next and previous leave the cursor
\* at an index of the playlist, whatever the cursor was (-1, an index of the
\* playlist, or an index beyond its end) and whatever is drawn under
\* shuffle; on a playlist of one track they leave it at 0.
C31_CursorStaysInRange ==
  LET length == Len(currentPlaylist) IN
  length > 0 =>
    \A cursor \in (-1)..(length + 1), shuffle \in BOOLEAN, allowed \in BOOLEAN :
      \A random \in (IF shuffle THEN 0..(length - 1) ELSE {0}) :
        LET s == WithCursor(cursor, shuffle)
            next == playNext(s, random, allowed).currentTrackIndex
            prev == playPrev(s, random, allowed).currentTrackIndex
        IN /\ next \in 0..(length - 1)
           /\ prev \in 0..(length - 1)
           /\ length = 1 => (next = 0 /\ prev = 0)

\* The full player is shown, a later search has left a playlist of one track
\* and the cursor is beyond its end; the buttons can be pressed
C31_Witness ==
  /\ Len(currentPlaylist) = 1
  /\ currentTrackIndex > 0
  /\ Visible("full")
  /\ playCalls = << >>
  /\ Idle

----------------------------------------------------------------------------
(* C32 *)

\* C32: the loop of the earlier playNext runs only under shuffle on a
\* playlist of more than one track, and with a fair Math.random() it ends:
\* the cursor is the index drawn and a playTrack has been started.
C32_ResampleTerminates ==
  /\ [](nextLoop.active => (isShuffle /\ Len(currentPlaylist) > 1))
  /\ nextLoop.active ~> (/\ ~nextLoop.active
                         /\ currentTrackIndex = nextLoop.nextIndex
                         /\ Loading)

\* The loop has drawn an index other than the cursor and is about to end
C32_Witness ==
  /\ nextLoop.active
  /\ nextLoop.nextIndex # currentTrackIndex
  /\ Len(currentPlaylist) > 2

----------------------------------------------------------------------------
(* C33 *)

\* C33: when every request completes, a playTrack in flight returns: either
\* the load was given up and the audio has no source, or the views show the
\* track over the mini player and the audio has a source.
C33_LoadingEnds ==
  Loading ~> (/\ ~Loading
              /\ \/ audio.src = NoText
                 \/ Shows(currentTrack) /\ Visible("mini"))

\* A Piped track has been resolved and playTrack awaits the start of the
\* playback, the media not yet loaded
C33_Witness ==
  /\ Len(playCalls) = 1
  /\ playCalls[1].stage = "play"
  /\ ~playCalls[1].settled
  /\ playCalls[1].track.source = "youtube"
  /\ audio.src # NoText
  /\ audio.duration = 0

----------------------------------------------------------------------------
(* C34 *)

\* Neither view of the player is shown
BothHidden == dom.miniPlayerHidden /\ dom.fullPlayerHidden

\* C34: once the player is closed, and until a new selection, both views
\* stay hidden, the audio stays paused and its source is not assigned.
C34_ClosedStaysClosed ==
  [][BothHidden =>
       /\ dom'.miniPlayerHidden /\ dom'.fullPlayerHidden
       /\ audio'.paused
       /\ audio'.src = audio.src]_vars

----------------------------------------------------------------------------
(* C35 - C36 *)

\* C35: the full player, once shown, stays shown through every step that is
\* not a click on minimize or close: a change of track does not hide it.
C35_TrackChangeKeepsView ==
  [][(Visible("full") /\ ~ClickMinimize /\ ~CloseStep) =>
       /\ ~dom'.fullPlayerHidden
       /\ dom'.miniPlayerHidden]_vars

\* C36: the mini player and the full player are never both shown, and the
\* bottom navigation bar is hidden exactly when the full player is shown.
C36_OneViewAtATime ==
  /\ ~(Visible("mini") /\ Visible("full"))
  /\ dom.navHidden <=> Visible("full")

\* The full player is shown, the bar hidden, while the track selected from
\* it is being loaded
C36_Witness ==
  /\ Visible("full") /\ ~Visible("mini") /\ dom.navHidden
  /\ Loading
  /\ audio.paused

----------------------------------------------------------------------------
(* C37 *)

\* C37: when no search is in flight, the result list is that of the search
\* submitted last: its tracks are of the source checked for that search.
C37_LastSearchWins ==
  (searchCalls = << >> /\ musicResults.kind = "items") =>
     \A i \in 1..Len(currentPlaylist) :
       dom.sourceFilter = "all" \/ currentPlaylist[i].source = dom.sourceFilter

----------------------------------------------------------------------------
(* C38 *)

\* C38: the list either shows a message and no item, or shows the tracks of
\* the playlist in order, and a click on the item at position i makes
\* playlist[i] the current track and i the cursor.
C38_ListIsPlaylist ==
  IF musicResults.kind = "items"
  THEN /\ musicResults.items = currentPlaylist
       /\ Len(currentPlaylist) > 0
       /\ \A k \in 1..Len(musicResults.items), allowed \in BOOLEAN :
            LET after == itemClick(State, k, allowed) IN
            /\ after.currentTrackIndex = k - 1
            /\ after.currentTrack = currentPlaylist[k]
            /\ after.playCalls[Len(after.playCalls)].track = currentPlaylist[k]
  ELSE musicResults.items = << >>

\* The list of an earlier search is shown while a later search and the
\* playTrack of its second item are in flight
C38_Witness ==
  /\ musicResults.kind = "items"
  /\ Len(searchCalls) > 0
  /\ Len(playCalls) > 0
  /\ currentTrackIndex = 1
  /\ currentTrack = currentPlaylist[2]

----------------------------------------------------------------------------
(* C39 *)

\* C39: once the listeners have run, the bars and the times show the
\* position and the duration of the audio; while the duration is not known
\* they show nothing of an earlier track (empty bars, 0:00).
C39_ProgressFollowsAudio ==
  Idle =>
    IF audio.duration = 0
    THEN /\ dom.miniProgressBar = 0 /\ dom.fullProgressBar = 0
         /\ dom.fullCurrent = formatTime(0) /\ dom.fullTotal = formatTime(0)
    ELSE /\ dom.miniProgressBar = (audio.currentTime * 100) \div audio.duration
         /\ dom.fullProgressBar = dom.miniProgressBar
         /\ dom.fullCurrent = formatTime(audio.currentTime)
         /\ dom.fullTotal = formatTime(audio.duration)

----------------------------------------------------------------------------
(* C40 *)

\* C40: a click on a button of the bar leaves that button alone active and
\* the section it names alone active; no other step changes either, so that
\* one button and one section are active at a time.
C40_OneActiveSection ==
  [][/\ \A item \in NavItems :
          NavClick(item) => /\ dom'.navActive = {item}
                            /\ dom'.sectionActive = {item}
     /\ (~ \E item \in NavItems : NavClick(item)) =>
          /\ dom'.navActive = dom.navActive
          /\ dom'.sectionActive = dom.sectionActive
     /\ Cardinality(dom'.navActive) = 1
     /\ Cardinality(dom'.sectionActive) = 1]_vars

\* The settings section is active, reached from another section than home,
\* while the mini player is shown
C40_Witness ==
  /\ dom.navActive = {"settings"}
  /\ dom.sectionActive = {"settings"}
  /\ Visible("mini")
  /\ ~audio.paused

====
